---- MODULE Spec2Model ----
(***************************************************************************)
(* Model of the Gizmo class of cesium-transform-gizmo                      *)
(* (src/unnamed/part_002): the bind/detach/mode/destroy lifecycle, the     *)
(* handle and collider registry, the pointer handlers of the drag state    *)
(* machine and the matrix edits they apply to the bound object.            *)
(*                                                                         *)
(* Numbers.  Lengths, matrix entries and scale factors are fixed-point     *)
(* integers with Den units to 1.0.  World positions are offsets from a     *)
(* site on the +X axis of the earth-fixed frame, where the local           *)
(* east/north/up frame is East = (0,1,0), North = (0,0,1), Up = (1,0,0);   *)
(* the frame is taken as constant over the few units the model moves.      *)
(* Pointer rays are described by what the Cesium calls return for them:    *)
(* the colliders whose box the ray enters, the host's scene.pick result    *)
(* and the point where the ray meets the drag plane.                       *)
(***************************************************************************)
EXTENDS Integers, Sequences, FiniteSets, TLC

\* fixed-point denominator: 3 decimal digits
Den == 1000
\* axisLength: nominal handle length in pixels
axisLength == 120
\* camera.getPixelSize at the gizmo: pixels per world unit seen by the host camera
PixelsPerUnit == 60
\* the offset rayCastGizmo subtracts from the distance of the CENTER collider
CenterBias == 1000
\* largest number of matrix-writing drag ticks in one run
MaxEvents == 4

VARIABLES
    object,              \* this.object: "null" or the bound object
    center,              \* this.center: <<>> (undefined) or <<position>>
    mode,                \* this._mode
    activeScale,         \* this._activeScale
    axisPrimitives,      \* keys of this._axisPrimitives
    colliders,           \* this._colliders
    handler,             \* this._handler is defined
    preUpdate,           \* update is subscribed to scene.preUpdate
    isDragging,          \* this._isDragging
    dragAxisName,        \* this._dragAxisName
    dragPlane,           \* this._dragPlane: <<>> or <<[normal, point]>>
    dragStartPoint,      \* this._dragStartPoint
    dragStartCenter,     \* this._dragStartCenter
    dragVectorStart,     \* this._dragVectorStart
    initialModelMatrix,  \* this._initialModelMatrix
    highlightedId,       \* this._highlightedId
    edgeDetection,       \* this._edgeDetectionStage is defined
    selected,            \* this._edgeDetectionStage.selected
    enableRotate,        \* screenSpaceCameraController.enableRotate
    enableTranslate,     \* screenSpaceCameraController.enableTranslate
    modelMatrix,         \* object.modelMatrix of every host object
    placed,              \* what update() last wrote to the handle primitives
    events,              \* number of calls and input actions so far
    lastOp,              \* the handler that ran last, and what it saw
    fired                \* the onUpdate calls the last handler made

vars == <<object, center, mode, activeScale, axisPrimitives, colliders, handler,
          preUpdate, isDragging, dragAxisName, dragPlane, dragStartPoint,
          dragStartCenter, dragVectorStart, initialModelMatrix, highlightedId,
          edgeDetection, selected, enableRotate, enableTranslate, modelMatrix,
          placed, events, lastOp, fired>>

-----------------------------------------------------------------------------
\* Cartesian3

Vec(a, b, c) == <<a, b, c>>
ZeroVec == <<0, 0, 0>>
VAdd(a, b) == <<a[1] + b[1], a[2] + b[2], a[3] + b[3]>>
VSub(a, b) == <<a[1] - b[1], a[2] - b[2], a[3] - b[3]>>
VNeg(a) == <<-a[1], -a[2], -a[3]>>
VDot(a, b) == a[1] * b[1] + a[2] * b[2] + a[3] * b[3]
VCross(a, b) == <<a[2] * b[3] - a[3] * b[2], a[3] * b[1] - a[1] * b[3], a[1] * b[2] - a[2] * b[1]>>
VScale(a, k) == <<a[1] * k, a[2] * k, a[3] * k>>
VDiv(a, k) == <<a[1] \div k, a[2] \div k, a[3] \div k>>
Abs(n) == IF n < 0 THEN -n ELSE n
Sign(n) == IF n < 0 THEN -1 ELSE IF n > 0 THEN 1 ELSE 0
Max(a, b) == IF a > b THEN a ELSE b

\* a vector along one coordinate axis, the only directions the model normalizes
AxisAligned(v) == Cardinality({i \in 1..3 : v[i] # 0}) = 1
\* Cartesian3.magnitude, exact for axis-aligned vectors
Magnitude(v) == Abs(v[1]) + Abs(v[2]) + Abs(v[3])
\* Cartesian3.normalize to a unit vector with entries -1, 0, 1
Normalize(v) == <<Sign(v[1]), Sign(v[2]), Sign(v[3])>>

-----------------------------------------------------------------------------
\* Matrix4 as three columns of the 3x3 block (Den = 1.0) and a translation

Mat(a, b, c, tr) == [c0 |-> a, c1 |-> b, c2 |-> c, t |-> tr]
IdentityMatrix == Mat(<<Den, 0, 0>>, <<0, Den, 0>>, <<0, 0, Den>>, ZeroVec)
\* the 3x3 block applied to a vector, in units of Den * |v|
LinApply(m, v) == VAdd(VAdd(VScale(m.c0, v[1]), VScale(m.c1, v[2])), VScale(m.c2, v[3]))
\* Matrix4.multiply(a, b)
Multiply(a, b) ==
    Mat(VDiv(LinApply(a, b.c0), Den), VDiv(LinApply(a, b.c1), Den),
        VDiv(LinApply(a, b.c2), Den), VAdd(VDiv(LinApply(a, b.t), Den), a.t))
\* the product has no digits below the fixed-point resolution
ExactVec(v) == \A i \in 1..3 : v[i] % Den = 0
MultiplyExact(a, b) ==
    /\ ExactVec(LinApply(a, b.c0)) /\ ExactVec(LinApply(a, b.c1))
    /\ ExactVec(LinApply(a, b.c2)) /\ ExactVec(LinApply(a, b.t))
FromTranslation(v) == Mat(<<Den, 0, 0>>, <<0, Den, 0>>, <<0, 0, Den>>, v)
FromScale(s) == Mat(<<s[1], 0, 0>>, <<0, s[2], 0>>, <<0, 0, s[3]>>, ZeroVec)

\* Transforms.eastNorthUpToFixedFrame at the site
East == <<0, 1, 0>>
North == <<0, 0, 1>>
Up == <<1, 0, 0>>
EnuMatrix(c) == Mat(VScale(East, Den), VScale(North, Den), VScale(Up, Den), c)
\* Matrix4.getColumn(enuMatrix, i), normalized
EnuAxis(axis) ==
    IF axis = "X" THEN East ELSE IF axis = "Y" THEN North ELSE IF axis = "Z" THEN Up ELSE ZeroVec

-----------------------------------------------------------------------------
\* The host: objects, camera

HostObjects == {"modelA", "tilesetB"}
\* the model matrix the host gave each object before the gizmo was created:
\* modelA sits in the local frame of the site, tilesetB keeps the world axes
InitialMatrix(o) ==
    IF o = "modelA" THEN EnuMatrix(ZeroVec) ELSE FromTranslation(<<0, 3 * Den, 0>>)
\* centre of the object's bounding sphere in the object's own coordinates
LocalCenter(o) == IF o = "modelA" THEN ZeroVec ELSE <<0, 0, Den>>
\* object.boundingSphere.center: the local centre carried by the model matrix
BoundingSphereCenter(o, m) == VAdd(VDiv(LinApply(m, LocalCenter(o)), Den), m.t)
\* camera.direction, camera.up and camera.position: the host looks north, from the south
CameraDirection == North
CameraUp == Up
CameraPosition == VAdd(VScale(North, -20 * Den), VScale(Up, 5 * Den))
\* axisLength * pixelSize: the handle length in world units at the camera distance
CurrentLen == (axisLength * Den) \div PixelsPerUnit

-----------------------------------------------------------------------------
\* GizmoId and the registry built by createGizmo

Modes == {"translate", "rotate", "scale"}
Id(axis, type, name) == [axis |-> axis, type |-> type, name |-> name]
\* null
NullId == Id("", "", "")
\* the id of a primitive of the host application: a type, no axis, no name
ForeignId == Id("undefined", "feature", "undefined")

\* addCollider; radius, tube, ringNormalAxis and the angles (in degrees) are the
\* extra parameters of a SECTOR collider (ringNormalAxis: 0 = X, 1 = Y, 2 = Z),
\* absent on a BOX
Collider(id, type, key, min, max) ==
    [id |-> id, type |-> type, primitiveKey |-> key, localMin |-> min, localMax |-> max,
     radius |-> 0, tube |-> 0, ringNormalAxis |-> -1, startAngle |-> 0, endAngle |-> 0]
SectorCollider(id, key, min, max, ringNormalAxis) ==
    [Collider(id, "SECTOR", key, min, max) EXCEPT
        !.radius = Den, !.tube = Den \div 20, !.ringNormalAxis = ringNormalAxis,
        !.startAngle = 0, !.endAngle = 90]

\* createCenterGizmo
CenterId(m) == Id("CENTER", IF m = "scale" THEN "scale" ELSE "center", "CENTER")
CenterCollider(m) == Collider(CenterId(m), "BOX", "CENTER", <<-50, -50, -50>>, <<50, 50, 50>>)

\* createTranslationGizmo
TranslationColliders ==
    << Collider(Id("X", "translate", "TRANS_X"), "BOX", "X_line", <<0, -100, -100>>, <<1150, 100, 100>>),
       Collider(Id("Y", "translate", "TRANS_Y"), "BOX", "Y_line", <<-100, 0, -100>>, <<100, 1150, 100>>),
       Collider(Id("Z", "translate", "TRANS_Z"), "BOX", "Z_line", <<-100, -100, 0>>, <<100, 100, 1150>>),
       Collider(Id("XY", "translate", "PLANE_XY"), "BOX", "PLANE_XY", <<150, 150, -10>>, <<450, 450, 10>>),
       Collider(Id("YZ", "translate", "PLANE_YZ"), "BOX", "PLANE_YZ", <<-10, 150, 150>>, <<10, 450, 450>>),
       Collider(Id("ZX", "translate", "PLANE_ZX"), "BOX", "PLANE_ZX", <<150, -10, 150>>, <<450, 10, 450>>) >>
TranslationPrimitives ==
    {"X_line", "X_arrow", "Y_line", "Y_arrow", "Z_line", "Z_arrow", "PLANE_XY", "PLANE_YZ", "PLANE_ZX"}

\* createRotationGizmo: the sector colliders are registered under the key of the axis
RotationColliders ==
    << SectorCollider(Id("X", "rotate", "ROT_X"), "X", <<-50, 0, 0>>, <<50, 1050, 1050>>, 0),
       SectorCollider(Id("Y", "rotate", "ROT_Y"), "Y", <<0, -50, 0>>, <<1050, 50, 1050>>, 1),
       SectorCollider(Id("Z", "rotate", "ROT_Z"), "Z", <<0, 0, -50>>, <<1050, 1050, 50>>, 2) >>
RotationPrimitives == {"X_fan", "X_rim", "Y_fan", "Y_rim", "Z_fan", "Z_rim"}

\* createScaleGizmo
ScaleColliders ==
    << Collider(Id("X", "scale", "SCALE_X"), "BOX", "X_line", <<0, -100, -100>>, <<1100, 100, 100>>),
       Collider(Id("Y", "scale", "SCALE_Y"), "BOX", "Y_line", <<-100, 0, -100>>, <<100, 1100, 100>>),
       Collider(Id("Z", "scale", "SCALE_Z"), "BOX", "Z_line", <<-100, -100, 0>>, <<100, 100, 1100>>) >>
ScalePrimitives == {"X_line", "X_box", "Y_line", "Y_box", "Z_line", "Z_box"}

\* the colliders and primitive keys createGizmo leaves behind in mode m
GizmoColliders(m) ==
    (IF m = "translate" THEN TranslationColliders
     ELSE IF m = "rotate" THEN RotationColliders ELSE ScaleColliders) \o <<CenterCollider(m)>>
GizmoPrimitives(m) ==
    (IF m = "translate" THEN TranslationPrimitives
     ELSE IF m = "rotate" THEN RotationPrimitives ELSE ScalePrimitives) \cup {"CENTER"}

\* the ids scene.pick can return for the gizmo: those of its rendered primitives
RenderedIds == {colliders[i].id : i \in 1..Len(colliders)}

-----------------------------------------------------------------------------
\* getTransformState

\* Number.toFixed to a multiple of q, halves away from zero
RoundTo(n, q) == Sign(n) * (((Abs(n) + q \div 2) \div q) * q)
\* position.x.toFixed(2)
Fixed2(n) == RoundTo(n, Den \div 100)
\* cleanScale: toFixed(3), and values within 0.00001 of 1 read as 1
CleanScale(n) == IF n = Den THEN Den ELSE RoundTo(n, Den \div 1000)
\* Math.atan2 and Math.asin in degrees, on the entries -1, 0, 1 of a quarter-turn rotation
Atan2Deg(y, x) ==
    IF y = 0 THEN (IF x < 0 THEN 180 ELSE 0)
    ELSE IF x = 0 THEN (IF y > 0 THEN 90 ELSE -90)
    ELSE IF y > 0 THEN (IF x > 0 THEN 45 ELSE 135)
    ELSE (IF x > 0 THEN -45 ELSE -135)
AsinDeg(s) == 90 * Sign(s)
\* a toDegrees without the two tests against 0.01, for comparison
WrapDegreesUnsnapped(md) ==
    LET r == Sign(md) * (Abs(md) % (360 * Den))
        w == IF r < 0 THEN r + 360 * Den ELSE r
    IN RoundTo(w, Den \div 100) \div (Den \div 100)
\* toDegrees on an angle given in thousandths of a degree: the remainder of 360
\* with the sign of the angle, plus 360 when negative, 0 within 0.01 of 360 or
\* of 0, then toFixed(2); the result is in hundredths of a degree
WrapDegrees(md) ==
    LET r == Sign(md) * (Abs(md) % (360 * Den))
        w == IF r < 0 THEN r + 360 * Den ELSE r
        c == IF Abs(w - 360 * Den) < Den \div 100 THEN 0
             ELSE IF Abs(w) < Den \div 100 THEN 0 ELSE w
    IN RoundTo(c, Den \div 100) \div (Den \div 100)
\* toDegrees on a whole number of degrees
ToDegrees(deg) == WrapDegrees(deg * Den)
\* HeadingPitchRoll.fromQuaternion of the rotation relative to the local frame,
\* read off the entries R[row][col] = axis(row) . column(col) of that rotation
Heading(m) == -Atan2Deg(VDot(North, Normalize(m.c0)), VDot(East, Normalize(m.c0)))
Pitch(m) == AsinDeg(VDot(Up, Normalize(m.c0)))
Roll(m) == Atan2Deg(VDot(Up, Normalize(m.c1)), VDot(Up, Normalize(m.c2)))
\* the TransformState decoded from a model matrix
DecodeMatrix(m) ==
    [ position |-> <<Fixed2(m.t[1]), Fixed2(m.t[2]), Fixed2(m.t[3])>>,
      rotation |-> <<ToDegrees(Heading(m)), ToDegrees(Pitch(m)), ToDegrees(Roll(m))>>,
      scale |-> <<CleanScale(Magnitude(m.c0)), CleanScale(Magnitude(m.c1)), CleanScale(Magnitude(m.c2))>>,
      modelMatrix |-> m ]
\* getTransformState(): <<>> is null
GetTransformState(obj, ctr, mats) ==
    IF obj = "null" \/ ctr = <<>> THEN <<>> ELSE <<DecodeMatrix(mats[obj])>>

-----------------------------------------------------------------------------
\* rayCastGizmo

\* interval.start of the ray in each collider's box, 0 when the box (or the
\* sector test) gives no hit
HitDistances == {0, 2}
\* what a ray gives in the local frame of one collider: interval.start (0: no
\* interval) and the entry point Ray.getPoint(localRay, interval.start)
Entry(start, point) == [start |-> start, point |-> point]
NoEntry == Entry(0, ZeroVec)
\* rayAxisAlignedBoundingBox at a point of the ray: the point lies in the box
InBox(p, c) == \A k \in 1..3 : c.localMin[k] <= p[k] /\ p[k] <= c.localMax[k]
\* the in-plane coordinates (u, v) of a point of a sector, by ringNormalAxis
SectorUV(c, p) ==
    IF c.ringNormalAxis = 2 THEN <<p[1], p[2]>>
    ELSE IF c.ringNormalAxis = 0 THEN <<p[2], p[3]>>
    ELSE IF c.ringNormalAxis = 1 THEN <<p[3], p[1]>> ELSE <<0, 0>>
\* the point of the sector's plane with in-plane coordinates (u, v)
FromUV(c, u, v) ==
    IF c.ringNormalAxis = 2 THEN <<u, v, 0>>
    ELSE IF c.ringNormalAxis = 0 THEN <<0, u, v>> ELSE <<v, 0, u>>
\* where the rays of the model meet the plane of a sector: at 45 degrees inside
\* the radius, at the far corner of its box, and at 135 degrees
SectorPoints(c) == {FromUV(c, 700, 700), FromUV(c, 1050, 1050), FromUV(c, -700, 700)}
\* the sector test: distance from the origin within radius + buffer, u and v
\* not below the tolerance of -0.05
SectorHit(c, p) ==
    LET buffer == c.tube * 4
        uv == SectorUV(c, p)
    IN /\ VDot(p, p) <= (c.radius + buffer) * (c.radius + buffer)
       /\ uv[1] >= -(Den \div 20)
       /\ uv[2] >= -(Den \div 20)
\* the entries a ray can have in collider i: a box is entered at distance 1, a
\* sector's box is entered at a point of the plane when that point lies in it
EntriesOf(i) ==
    IF colliders[i].type = "SECTOR"
    THEN {Entry(IF InBox(p, colliders[i]) THEN 1 ELSE 0, p) : p \in SectorPoints(colliders[i])}
    ELSE {Entry(1, ZeroVec)}
\* the rays of the model enter at most one axis handle and may also enter the
\* centre box, the last collider of the registry, behind it
HitPatterns(n) ==
    IF n = 0 THEN {<<>>}
    ELSE {[i \in 1..n |-> IF i = n THEN Entry(dc, ZeroVec) ELSE NoEntry] : dc \in HitDistances}
         \cup UNION {{[i \in 1..n |-> IF i = n THEN Entry(dc, ZeroVec)
                                       ELSE IF i = a THEN e ELSE NoEntry] :
                          e \in EntriesOf(a), dc \in HitDistances} : a \in 1..(n - 1)}
\* the patterns a pointer position can give: none without a pick ray
RayPatterns(hasRay) ==
    IF hasRay THEN HitPatterns(Len(colliders)) ELSE {[i \in 1..Len(colliders) |-> NoEntry]}
\* the colliders that reach the comparison of distances: their primitive key
\* resolves, their box gives an interval, and a sector passes the sector test
Tested(enter) ==
    {i \in 1..Len(colliders) :
        /\ colliders[i].primitiveKey \in axisPrimitives
        /\ enter[i].start > 0
        /\ colliders[i].type = "SECTOR" => SectorHit(colliders[i], enter[i].point)}
HitDistance(enter, i) ==
    IF colliders[i].id.axis = "CENTER" THEN enter[i].start - CenterBias ELSE enter[i].start
\* the id of the first collider with the smallest distance, or null
RayCastGizmo(hasRay, enter) ==
    IF Len(colliders) = 0 \/ ~hasRay \/ Tested(enter) = {} THEN NullId
    ELSE LET best == CHOOSE i \in Tested(enter) :
                        \A j \in Tested(enter) :
                            \/ HitDistance(enter, i) < HitDistance(enter, j)
                            \/ (HitDistance(enter, i) = HitDistance(enter, j) /\ i <= j)
         IN colliders[best].id

-----------------------------------------------------------------------------
\* update(): the placement written to the handle primitives each frame

\* a snap that leaves the direction at exactly 90 degrees in the first quadrant,
\* for comparison
SnapQuadrantOpenAtRight(y, x) ==
    IF y = 0 THEN (IF x < 0 THEN 2 ELSE 0)
    ELSE IF y > 0 THEN (IF x >= 0 THEN 0 ELSE 1)
    ELSE (IF x < 0 THEN -2 ELSE -1)

\* Math.floor(Math.atan2(y, x) / (PI / 2)), in quarter turns
SnapQuadrant(y, x) ==
    IF y = 0 THEN (IF x < 0 THEN 2 ELSE 0)
    ELSE IF y > 0 THEN (IF x > 0 THEN 0 ELSE 1)
    ELSE (IF x < 0 THEN -2 ELSE -1)
\* centerToCamera in the local frame: (east, north, up) components
LocalCameraDir(c) ==
    LET d == VSub(CameraPosition, c) IN <<VDot(East, d), VDot(North, d), VDot(Up, d)>>
\* snapAngle of the X, Y and Z sector, in degrees
SnapAngles(c) ==
    LET l == LocalCameraDir(c)
    IN <<90 * SnapQuadrant(l[3], l[2]), 90 * SnapQuadrant(l[1], l[3]), 90 * SnapQuadrant(l[2], l[1])>>
\* the scale and orientation update() gives the primitives
Placement(c) ==
    [ origin |-> c,
      centerScale |->
          IF mode = "scale" /\ isDragging /\ dragAxisName = "CENTER"
          THEN (CurrentLen * activeScale[1]) \div Den ELSE CurrentLen,
      axisLen |->
          IF mode = "rotate" THEN <<CurrentLen, CurrentLen, CurrentLen>>
          ELSE <<(CurrentLen * activeScale[1]) \div Den, (CurrentLen * activeScale[2]) \div Den,
                 (CurrentLen * activeScale[3]) \div Den>>,
      snap |-> IF mode = "rotate" THEN SnapAngles(c) ELSE <<0, 0, 0>> ]

-----------------------------------------------------------------------------
\* The engine's operations

\* what the handler that ran last saw; hit is the plane point of a drag tick
Op(name, arg, picked, tick) ==
    [name |-> name, arg |-> arg, wasDragging |-> isDragging, wasAlive |-> handler,
     picked |-> picked, tick |-> tick, hit |-> <<>>]

sessionVars == <<dragStartPoint, dragStartCenter, dragVectorStart, initialModelMatrix>>
cameraVars == <<enableRotate, enableTranslate>>
registryVars == <<axisPrimitives, colliders, placed>>
subscriptionVars == <<handler, preUpdate, edgeDetection>>

Init ==
    /\ object = "null"
    /\ center = <<>>
    /\ mode \in Modes
    /\ activeScale = <<Den, Den, Den>>
    /\ axisPrimitives = {}
    /\ colliders = <<>>
    /\ handler = TRUE
    /\ preUpdate = TRUE
    /\ isDragging = FALSE
    /\ dragAxisName = ""
    /\ dragPlane = <<>>
    /\ dragStartPoint = ZeroVec
    /\ dragStartCenter = ZeroVec
    /\ dragVectorStart = ZeroVec
    /\ initialModelMatrix = Mat(ZeroVec, ZeroVec, ZeroVec, ZeroVec)
    /\ highlightedId = NullId
    /\ edgeDetection \in BOOLEAN
    /\ selected = <<>>
    /\ enableRotate = TRUE
    /\ enableTranslate = TRUE
    /\ modelMatrix = [o \in HostObjects |-> InitialMatrix(o)]
    /\ placed = <<>>
    /\ events = 0
    /\ lastOp = [name |-> "new", arg |-> "", wasDragging |-> FALSE, wasAlive |-> TRUE,
                 picked |-> NullId, tick |-> "", hit |-> <<>>]
    /\ fired = <<>>

\* a resetState that forgets the active scale, for comparison
ResetStateKeepsScale ==
    /\ isDragging' = FALSE
    /\ dragAxisName' = ""
    /\ dragPlane' = <<>>
    /\ activeScale' = activeScale
    /\ highlightedId' = NullId
    /\ enableRotate' = TRUE
    /\ enableTranslate' = TRUE

\* resetState
ResetState ==
    /\ isDragging' = FALSE
    /\ dragAxisName' = ""
    /\ dragPlane' = <<>>
    /\ activeScale' = <<Den, Den, Den>>
    /\ highlightedId' = NullId
    /\ enableRotate' = TRUE
    /\ enableTranslate' = TRUE

\* a createGizmo() that pushes the new colliders after the ones it finds, for
\* comparison
CreateGizmoAppends(m) ==
    /\ axisPrimitives' = GizmoPrimitives(m)
    /\ colliders' = colliders \o GizmoColliders(m)
    /\ placed' = <<>>

\* createGizmo in mode m: the new primitives start with the identity placement
CreateGizmo(m) ==
    /\ axisPrimitives' = GizmoPrimitives(m)
    /\ colliders' = GizmoColliders(m)
    /\ placed' = <<>>

\* a detach() that leaves the handles in place, for comparison
DetachKeepsRegistry ==
    /\ ResetState
    /\ object' = "null"
    /\ center' = <<>>
    /\ selected' = IF edgeDetection THEN <<>> ELSE selected
    /\ fired' = <<>>
    /\ UNCHANGED <<mode, registryVars, sessionVars, subscriptionVars, modelMatrix>>

\* detach()
Detach ==
    /\ ResetState
    /\ object' = "null"
    /\ center' = <<>>
    /\ axisPrimitives' = {}
    /\ colliders' = <<>>
    /\ placed' = <<>>
    /\ selected' = IF edgeDetection THEN <<>> ELSE selected
    /\ fired' = <<>>
    /\ UNCHANGED <<mode, sessionVars, subscriptionVars, modelMatrix>>

\* the arguments bindObject takes for "no object": !object
Falsy == {"null", "undefined"}

\* a bindObject(o) whose unbinding leaves the handles in place, for comparison
BindObjectKeepsHandles(o) ==
    IF o \in Falsy THEN DetachKeepsRegistry
    ELSE IF object = o
    THEN /\ fired' = <<>>
         /\ UNCHANGED <<object, center, mode, activeScale, registryVars, isDragging, dragAxisName,
                        dragPlane, sessionVars, highlightedId, selected, cameraVars,
                        subscriptionVars, modelMatrix>>
    ELSE /\ ResetState
         /\ object' = o
         /\ center' = <<BoundingSphereCenter(o, modelMatrix[o])>>
         /\ CreateGizmo(mode)
         /\ selected' = IF edgeDetection THEN <<o>> ELSE selected
         /\ fired' = <<GetTransformState(o, center', modelMatrix)>>
         /\ UNCHANGED <<mode, sessionVars, subscriptionVars, modelMatrix>>

\* a bindObject(o) that binds again the object it already holds, for comparison
BindObjectAlwaysRebinds(o) ==
    IF o \in Falsy THEN Detach
    ELSE /\ ResetState
         /\ object' = o
         /\ center' = <<BoundingSphereCenter(o, modelMatrix[o])>>
         /\ CreateGizmo(mode)
         /\ selected' = IF edgeDetection THEN <<o>> ELSE selected
         /\ fired' = <<GetTransformState(o, center', modelMatrix)>>
         /\ UNCHANGED <<mode, sessionVars, subscriptionVars, modelMatrix>>

\* bindObject(o)
BindObject(o) ==
    IF o \in Falsy THEN Detach
    ELSE IF object = o
    THEN /\ fired' = <<>>
         /\ UNCHANGED <<object, center, mode, activeScale, registryVars, isDragging, dragAxisName,
                        dragPlane, sessionVars, highlightedId, selected, cameraVars,
                        subscriptionVars, modelMatrix>>
    ELSE /\ ResetState
         /\ object' = o
         /\ center' = <<BoundingSphereCenter(o, modelMatrix[o])>>
         /\ CreateGizmo(mode)
         /\ selected' = IF edgeDetection THEN <<o>> ELSE selected
         /\ fired' = <<GetTransformState(o, center', modelMatrix)>>
         /\ UNCHANGED <<mode, sessionVars, subscriptionVars, modelMatrix>>

\* set mode(val)
SetMode(val) ==
    /\ fired' = <<>>
    /\ IF mode # val
       THEN /\ mode' = val
            /\ CreateGizmo(val)
       ELSE UNCHANGED <<mode, registryVars>>
    /\ UNCHANGED <<object, center, activeScale, isDragging, dragAxisName, dragPlane, sessionVars,
                   highlightedId, selected, cameraVars, subscriptionVars, modelMatrix>>

\* a destroy() that leaves the preUpdate listener subscribed, for comparison
DestroyKeepsListener ==
    /\ handler' = FALSE
    /\ fired' = <<>>
    /\ UNCHANGED <<object, center, mode, activeScale, registryVars, isDragging, dragAxisName,
                   dragPlane, sessionVars, highlightedId, edgeDetection, selected, cameraVars,
                   modelMatrix, preUpdate>>

\* destroy()
Destroy ==
    /\ preUpdate' = FALSE
    /\ handler' = FALSE
    /\ fired' = <<>>
    /\ UNCHANGED <<object, center, mode, activeScale, registryVars, isDragging, dragAxisName,
                   dragPlane, sessionVars, highlightedId, edgeDetection, selected, cameraVars,
                   modelMatrix>>

\* an update() that also moves the bound object onto the gizmo centre, for comparison
UpdateRecentres ==
    /\ preUpdate
    /\ placed' = IF center = <<>> THEN placed ELSE <<Placement(center[1])>>
    /\ modelMatrix' = IF center = <<>> THEN modelMatrix
                      ELSE [modelMatrix EXCEPT ![object] = FromTranslation(center[1])]
    /\ fired' = <<>>
    /\ UNCHANGED <<object, center, mode, activeScale, axisPrimitives, colliders, isDragging,
                   dragAxisName, dragPlane, sessionVars, highlightedId, selected, cameraVars,
                   subscriptionVars>>

\* update(), called by scene.preUpdate
Update ==
    /\ preUpdate
    /\ placed' = IF center = <<>> THEN placed ELSE <<Placement(center[1])>>
    /\ fired' = <<>>
    /\ UNCHANGED <<object, center, mode, activeScale, axisPrimitives, colliders, isDragging,
                   dragAxisName, dragPlane, sessionVars, highlightedId, selected, cameraVars,
                   subscriptionVars, modelMatrix>>

-----------------------------------------------------------------------------
\* Pointer rays

\* the points, one world unit from the plane's origin along a local axis, where
\* the rays of the model meet a drag plane; <<>> is no intersection
UnitOffsets == {VScale(a, Den) : a \in {East, North, Up}}
RayPlane(plane) ==
    {<<>>} \cup {<<VAdd(plane.point, off)>> : off \in {o \in UnitOffsets : VDot(o, plane.normal) = 0}}
\* what scene.pick can return: nothing, a primitive of the host, a rendered handle;
\* the handlers call it only when the ray cast found no collider
ScenePicks(hasRay, enter) ==
    IF RayCastGizmo(hasRay, enter) # NullId THEN {NullId}
    ELSE {NullId, ForeignId} \cup RenderedIds

-----------------------------------------------------------------------------
\* handleHover / handleDown / startDrag / handleUp

\* the id handleHover highlights: the collider hit, else a host pick with a type and an axis
HoverPick(hasRay, enter, picked) ==
    IF RayCastGizmo(hasRay, enter) # NullId THEN RayCastGizmo(hasRay, enter)
    ELSE IF picked # NullId /\ picked.axis # "undefined" THEN picked ELSE NullId

\* a handleDown that prefers the pick of the host, for comparison
DownPickHostFirst(hasRay, enter, picked) ==
    IF picked # NullId THEN picked ELSE RayCastGizmo(hasRay, enter)

\* the id handleDown passes to startDrag: the collider hit, else a host pick with a type
DownPick(hasRay, enter, picked) ==
    IF RayCastGizmo(hasRay, enter) # NullId THEN RayCastGizmo(hasRay, enter) ELSE picked

\* handleHover
HandleHover(pickedId) ==
    /\ highlightedId' = pickedId
    /\ fired' = <<>>
    /\ UNCHANGED <<object, center, mode, activeScale, registryVars, isDragging, dragAxisName,
                   dragPlane, sessionVars, selected, cameraVars, subscriptionVars, modelMatrix>>

\* a plane normal that faces the camera for the rotate handles too, for comparison
PlaneNormalFacesCamera(axisName) ==
    IF mode = "translate"
    THEN (IF axisName = "XY" THEN Up
          ELSE IF axisName = "YZ" THEN East
          ELSE IF axisName = "ZX" THEN North ELSE CameraDirection)
    ELSE CameraDirection

\* the normal startDrag gives the drag plane, before normalization
PlaneNormal(axisName) ==
    IF mode = "translate"
    THEN (IF axisName = "XY" THEN Up
          ELSE IF axisName = "YZ" THEN East
          ELSE IF axisName = "ZX" THEN North ELSE CameraDirection)
    ELSE IF mode = "scale" \/ axisName = "CENTER" THEN CameraDirection
    ELSE EnuAxis(axisName)

\* the plane startDrag builds for a handle, <<>> when there is none to build
NewDragPlane(id) ==
    IF center = <<>> \/ PlaneNormal(id.axis) = ZeroVec THEN <<>>
    ELSE <<[normal |-> Normalize(PlaneNormal(id.axis)), point |-> center[1]]>>

\* where the pointer-down ray can meet the new plane, when startDrag gets to build one
StartHits(hasRay, id) ==
    IF ~hasRay \/ id = NullId \/ (id.axis = "CENTER" /\ mode # "scale") \/ NewDragPlane(id) = <<>>
    THEN {<<>>}
    ELSE RayPlane(NewDragPlane(id)[1])

\* startDrag(id, position); hit is rayPlane(ray, dragPlane)
StartDrag(id, hit) ==
    /\ fired' = <<>>
    /\ IF id.axis = "CENTER" /\ mode # "scale"
       THEN UNCHANGED <<object, center, mode, activeScale, registryVars, isDragging, dragAxisName,
                        dragPlane, sessionVars, highlightedId, selected, cameraVars,
                        subscriptionVars, modelMatrix>>
       ELSE /\ enableRotate' = FALSE
            /\ enableTranslate' = FALSE
            /\ isDragging' = TRUE
            /\ dragAxisName' = id.name
            /\ selected' = IF edgeDetection THEN <<object>> ELSE selected
            /\ IF center = <<>>
               THEN UNCHANGED <<dragPlane, sessionVars>>
               ELSE /\ dragStartCenter' = center[1]
                    /\ initialModelMatrix' = modelMatrix[object]
                    /\ IF NewDragPlane(id) = <<>>
                       \* normalize of the zero normal throws
                       THEN UNCHANGED <<dragPlane, dragStartPoint, dragVectorStart>>
                       ELSE /\ dragPlane' = NewDragPlane(id)
                            /\ IF hit = <<>>
                               THEN UNCHANGED <<dragStartPoint, dragVectorStart>>
                               ELSE /\ dragStartPoint' = hit[1]
                                    /\ dragVectorStart' = Normalize(VSub(hit[1], center[1]))
            /\ UNCHANGED <<object, center, mode, activeScale, registryVars, highlightedId,
                           subscriptionVars, modelMatrix>>

\* handleDown
HandleDown(pickedId, hit) ==
    IF pickedId # NullId THEN StartDrag(pickedId, hit)
    ELSE /\ fired' = <<>>
         /\ UNCHANGED <<object, center, mode, activeScale, registryVars, isDragging, dragAxisName,
                        dragPlane, sessionVars, highlightedId, selected, cameraVars,
                        subscriptionVars, modelMatrix>>

\* a handleUp that keeps the outline selection, for comparison
HandleUpKeepsOutline ==
    /\ fired' = <<>>
    /\ IF isDragging
       THEN /\ isDragging' = FALSE
            /\ enableRotate' = TRUE
            /\ enableTranslate' = TRUE
            /\ activeScale' = <<Den, Den, Den>>
       ELSE UNCHANGED <<isDragging, cameraVars, activeScale>>
    /\ UNCHANGED <<object, center, mode, registryVars, dragAxisName, dragPlane, sessionVars,
                   highlightedId, selected, subscriptionVars, modelMatrix>>

\* a handleUp that leaves the camera's translate control disabled, for comparison
HandleUpKeepsLock ==
    /\ fired' = <<>>
    /\ IF isDragging
       THEN /\ isDragging' = FALSE
            /\ enableRotate' = TRUE
            /\ enableTranslate' = enableTranslate
            /\ activeScale' = <<Den, Den, Den>>
            /\ selected' = IF edgeDetection THEN <<>> ELSE selected
       ELSE UNCHANGED <<isDragging, cameraVars, activeScale, selected>>
    /\ UNCHANGED <<object, center, mode, registryVars, dragAxisName, dragPlane, sessionVars,
                   highlightedId, subscriptionVars, modelMatrix>>

\* handleUp
HandleUp ==
    /\ fired' = <<>>
    /\ IF isDragging
       THEN /\ isDragging' = FALSE
            /\ enableRotate' = TRUE
            /\ enableTranslate' = TRUE
            /\ activeScale' = <<Den, Den, Den>>
            /\ selected' = IF edgeDetection THEN <<>> ELSE selected
       ELSE UNCHANGED <<isDragging, cameraVars, activeScale, selected>>
    /\ UNCHANGED <<object, center, mode, registryVars, dragAxisName, dragPlane, sessionVars,
                   highlightedId, subscriptionVars, modelMatrix>>

-----------------------------------------------------------------------------
\* handleDrag and the per-mode updates

\* axisName.split('_')[1]
AxisOfName(name) ==
    IF name \in {"TRANS_X", "ROT_X", "SCALE_X"} THEN "X"
    ELSE IF name \in {"TRANS_Y", "ROT_Y", "SCALE_Y"} THEN "Y"
    ELSE IF name \in {"TRANS_Z", "ROT_Z", "SCALE_Z"} THEN "Z"
    ELSE IF name = "PLANE_XY" THEN "XY"
    ELSE IF name = "PLANE_YZ" THEN "YZ"
    ELSE IF name = "PLANE_ZX" THEN "ZX" ELSE ""
\* axisName.includes('PLANE')
IsPlaneName(name) == name \in {"PLANE_XY", "PLANE_YZ", "PLANE_ZX"}

\* the smallest scale factor: Math.max(0.01, ...)
MinScale == Den \div 100
\* a scale factor without the floor, for comparison
ScaleFactorUnfloored(dragDist, gain) == Den + (dragDist * gain * Den) \div CurrentLen

\* sensitivity = 1 / currentLen, applied to a drag distance
ScaleFactor(dragDist, gain) == Max(MinScale, Den + (dragDist * gain * Den) \div CurrentLen)

\* Matrix3.fromQuaternion(Quaternion.fromAxisAngle(a, q quarter turns)) applied to v
Rotate(a, q, v) ==
    LET cos == IF q \in {2, -2} THEN -1 ELSE IF q = 0 THEN 1 ELSE 0
        sin == IF q = 1 THEN 1 ELSE IF q = -1 THEN -1 ELSE 0
    IN VAdd(VAdd(VScale(v, cos), VScale(VCross(a, v), sin)), VScale(a, (1 - cos) * VDot(a, v)))
RotationMatrix(a, q) ==
    Mat(Rotate(a, q, <<Den, 0, 0>>), Rotate(a, q, <<0, Den, 0>>), Rotate(a, q, <<0, 0, Den>>), ZeroVec)
\* rotationR * localScale * rotationR_T, R the rotation of the local frame
OrientedScale(s) ==
    LET col(j) == VAdd(VAdd(VScale(East, s[1] * East[j]), VScale(North, s[2] * North[j])),
                       VScale(Up, s[3] * Up[j]))
    IN Mat(col(1), col(2), col(3), ZeroVec)

\* an applyTransform that composes with the live matrix of the object, for comparison
ApplyTransformOnLive(transformMatrix) ==
    LET toOrigin == FromTranslation(VNeg(center[1]))
        toCenter == FromTranslation(center[1])
        m == Multiply(toCenter, Multiply(transformMatrix, toOrigin))
    IN Multiply(m, modelMatrix[object])

\* applyTransform: toCenter * transformMatrix * toOrigin * _initialModelMatrix
ApplyTransform(transformMatrix) ==
    LET toOrigin == FromTranslation(VNeg(center[1]))
        toCenter == FromTranslation(center[1])
        m == Multiply(toCenter, Multiply(transformMatrix, toOrigin))
    IN Multiply(m, initialModelMatrix)
\* no product of applyTransform loses digits
ApplyExact(transformMatrix) ==
    /\ MultiplyExact(transformMatrix, FromTranslation(VNeg(center[1])))
    /\ MultiplyExact(Multiply(FromTranslation(center[1]),
                              Multiply(transformMatrix, FromTranslation(VNeg(center[1])))),
                     initialModelMatrix)

\* the outcome of one tick: what it leaves in center, the object's matrix and _activeScale
Tick(kind, c, m, s) == [tick |-> kind, center |-> c, matrix |-> m, activeScale |-> s]
Keep(kind) == Tick(kind, center, modelMatrix[object], activeScale)

\* an updateTranslate that follows the pointer on every handle, for comparison
UpdateTranslateFollowsPointer(newPoint) ==
    LET moveVector == VSub(newPoint, dragStartPoint)
        newCenter == VAdd(dragStartCenter, moveVector)
    IN IF dragAxisName = "undefined" THEN Keep("throw")
       ELSE Tick("ok", <<newCenter>>, Multiply(FromTranslation(moveVector), initialModelMatrix),
                 activeScale)

\* updateTranslate
UpdateTranslate(newPoint) ==
    LET moveVector == VSub(newPoint, dragStartPoint)
        axisVector == EnuAxis(AxisOfName(dragAxisName))
        offset == IF IsPlaneName(dragAxisName) THEN moveVector
                  ELSE VScale(axisVector, VDot(moveVector, axisVector))
        newCenter == VAdd(dragStartCenter, offset)
        translation == VSub(newCenter, dragStartCenter)
    IN IF dragAxisName = "undefined" THEN Keep("throw")
       ELSE IF ~IsPlaneName(dragAxisName) /\ axisVector = ZeroVec THEN Keep("throw")
       ELSE Tick("ok", <<newCenter>>, Multiply(FromTranslation(translation), initialModelMatrix),
                 activeScale)

\* the angle between _dragVectorStart and the current direction, in quarter turns
QuarterTurns(currentVector) ==
    LET dot == VDot(dragVectorStart, currentVector)
    IN IF dot >= 1 THEN 0 ELSE IF dot = 0 THEN 1 ELSE 2

\* an updateRotate that writes the rotation by zero as well, for comparison
UpdateRotateWritesZero(newPoint) ==
    LET currentVector == Normalize(VSub(newPoint, center[1]))
        angle == QuarterTurns(currentVector)
        cross == VCross(dragVectorStart, currentVector)
        axisVector == EnuAxis(AxisOfName(dragAxisName))
        signed == IF VDot(cross, axisVector) < 0 THEN -angle ELSE angle
    IN IF currentVector = ZeroVec THEN Keep("throw")
       ELSE IF dragAxisName = "undefined" \/ axisVector = ZeroVec THEN Keep("throw")
       ELSE Tick("ok", center, ApplyTransform(RotationMatrix(axisVector, signed)), activeScale)

\* updateRotate
UpdateRotate(newPoint) ==
    LET currentVector == Normalize(VSub(newPoint, center[1]))
        angle == QuarterTurns(currentVector)
        cross == VCross(dragVectorStart, currentVector)
        axisVector == EnuAxis(AxisOfName(dragAxisName))
        signed == IF VDot(cross, axisVector) < 0 THEN -angle ELSE angle
    IN IF currentVector = ZeroVec THEN Keep("throw")
       ELSE IF angle = 0 THEN Keep("ok")
       ELSE IF dragAxisName = "undefined" \/ axisVector = ZeroVec THEN Keep("throw")
       ELSE Tick("ok", center, ApplyTransform(RotationMatrix(axisVector, signed)), activeScale)

\* the scale matrix updateScale hands to applyTransform, and the factor it records
ScaleOf(newPoint) ==
    LET moveVector == VSub(newPoint, dragStartPoint)
        axis == AxisOfName(dragAxisName)
        uniform == ScaleFactor(VDot(moveVector, CameraUp), 2)
        scaleFactor == ScaleFactor(VDot(moveVector, EnuAxis(axis)), 1)
        scaleVec == <<IF axis = "X" THEN scaleFactor ELSE Den, IF axis = "Y" THEN scaleFactor ELSE Den,
                      IF axis = "Z" THEN scaleFactor ELSE Den>>
    IN IF dragAxisName = "CENTER"
       THEN [matrix |-> FromScale(<<uniform, uniform, uniform>>),
             active |-> <<uniform, uniform, uniform>>]
       ELSE [matrix |-> OrientedScale(scaleVec),
             active |-> <<IF axis = "X" THEN scaleFactor ELSE activeScale[1],
                          IF axis = "Y" THEN scaleFactor ELSE activeScale[2],
                          IF axis = "Z" THEN scaleFactor ELSE activeScale[3]>>]

\* updateScale
UpdateScale(newPoint) ==
    IF dragAxisName # "CENTER"
       /\ (dragAxisName = "undefined" \/ EnuAxis(AxisOfName(dragAxisName)) = ZeroVec)
    THEN Keep("throw")
    ELSE Tick("ok", center, ApplyTransform(ScaleOf(newPoint).matrix), ScaleOf(newPoint).active)

\* the ticks the fixed-point model can follow: directions along an axis, exact products
Representable(newPoint) ==
    /\ mode = "rotate" =>
           \/ VSub(newPoint, center[1]) = ZeroVec
           \/ AxisAligned(VSub(newPoint, center[1]))
    /\ mode = "scale" => ApplyExact(ScaleOf(newPoint).matrix)

\* handleDrag's dispatch on the mode; hit is rayPlane(ray, _dragPlane)
DragTick(hit) ==
    IF dragPlane = <<>> \/ center = <<>> \/ hit = <<>> THEN Keep("skip")
    ELSE IF mode = "translate" THEN UpdateTranslate(hit[1])
    ELSE IF mode = "rotate" THEN UpdateRotate(hit[1])
    ELSE UpdateScale(hit[1])

\* a handleDrag that reports every tick, skipped or not, for comparison
HandleDragAlwaysReports(hit) ==
    LET r == DragTick(hit)
    IN /\ center' = r.center
       /\ modelMatrix' = [modelMatrix EXCEPT ![object] = r.matrix]
       /\ activeScale' = r.activeScale
       /\ fired' = <<GetTransformState(object, center', modelMatrix')>>
       /\ UNCHANGED <<object, mode, registryVars, isDragging, dragAxisName, dragPlane, sessionVars,
                      highlightedId, selected, cameraVars, subscriptionVars>>

\* a handleDrag that gives the session up on a tick it has to skip, for comparison
HandleDragEndsOnSkip(hit) ==
    LET r == DragTick(hit)
    IN /\ center' = r.center
       /\ modelMatrix' = [modelMatrix EXCEPT ![object] = r.matrix]
       /\ activeScale' = r.activeScale
       /\ isDragging' = (r.tick # "skip")
       /\ fired' = IF r.tick = "ok" THEN <<GetTransformState(object, center', modelMatrix')>> ELSE <<>>
       /\ UNCHANGED <<object, mode, registryVars, dragAxisName, dragPlane, sessionVars,
                      highlightedId, selected, cameraVars, subscriptionVars>>

\* handleDrag
HandleDrag(hit) ==
    LET r == DragTick(hit)
    IN /\ center' = r.center
       /\ modelMatrix' = [modelMatrix EXCEPT ![object] = r.matrix]
       /\ activeScale' = r.activeScale
       /\ fired' = IF r.tick = "ok" THEN <<GetTransformState(object, center', modelMatrix')>> ELSE <<>>
       /\ UNCHANGED <<object, mode, registryVars, isDragging, dragAxisName, dragPlane, sessionVars,
                      highlightedId, selected, cameraVars, subscriptionVars>>

\* the points where a pointer-move ray can meet the stored plane
MoveHits(hasRay) ==
    IF ~hasRay \/ dragPlane = <<>> \/ center = <<>> THEN {<<>>}
    ELSE {h \in RayPlane(dragPlane[1]) : h = <<>> \/ Representable(h[1])}

-----------------------------------------------------------------------------
\* The calls of the application and the events of the host

engineVars == <<object, center, mode, activeScale, registryVars, isDragging, dragAxisName,
                dragPlane, sessionVars, highlightedId, selected, cameraVars, subscriptionVars,
                modelMatrix>>
\* one more call or input action, within the budget of the model
Step == events < MaxEvents /\ events' = events + 1
\* destroy() hands the primitive collection to the scene, which destroys it: the
\* application makes no further call that clears or rebuilds the handles of a
\* destroyed gizmo (bindObject, detach, mode); destroy() and getTransformState()
\* touch no primitive and can still be called
Alive == handler
\* a handler that returns at its first line
Return == fired' = <<>> /\ UNCHANGED engineVars

CallBindObject ==
    Step /\ Alive /\ \E o \in HostObjects \cup Falsy :
        BindObject(o) /\ lastOp' = Op("bindObject", o, NullId, "")

CallDetach == Step /\ Alive /\ Detach /\ lastOp' = Op("detach", "", NullId, "")

CallSetMode == Step /\ Alive /\ \E val \in Modes : SetMode(val) /\ lastOp' = Op("mode", val, NullId, "")

\* a getTransformState() that drops the hover highlight, for comparison
CallGetTransformStateClears ==
    /\ Step
    /\ highlightedId' = NullId
    /\ fired' = <<>>
    /\ UNCHANGED <<object, center, mode, activeScale, registryVars, isDragging, dragAxisName,
                   dragPlane, sessionVars, selected, cameraVars, subscriptionVars, modelMatrix>>
    /\ lastOp' = Op("getTransformState", "", NullId, "")

CallGetTransformState == Step /\ Return /\ lastOp' = Op("getTransformState", "", NullId, "")

CallDestroy == Step /\ Destroy /\ lastOp' = Op("destroy", "", NullId, "")

PreUpdate == Step /\ Update /\ lastOp' = Op("update", "", NullId, "")

\* the MOUSE_MOVE input action
MouseMove ==
    /\ Step
    /\ handler
    /\ \E hasRay \in BOOLEAN :
          IF object = "null" THEN Return /\ lastOp' = Op("move", "", NullId, "")
          ELSE IF isDragging
          THEN \E hit \in MoveHits(hasRay) :
                  /\ HandleDrag(hit)
                  /\ lastOp' = [Op("move", "", NullId, DragTick(hit).tick) EXCEPT !.hit = hit]
          ELSE \E enter \in RayPatterns(hasRay) :
                  \E picked \in ScenePicks(hasRay, enter) :
                      /\ HandleHover(HoverPick(hasRay, enter, picked))
                      /\ lastOp' = Op("move", "", NullId, "hover")

\* a LEFT_DOWN input action without the check for a bound object, for comparison
LeftDownUnguarded ==
    /\ Step
    /\ handler
    /\ \E hasRay \in BOOLEAN :
          \E enter \in RayPatterns(hasRay) :
              \E picked \in ScenePicks(hasRay, enter) :
                  \E hit \in StartHits(hasRay, DownPick(hasRay, enter, picked)) :
                      /\ HandleDown(DownPick(hasRay, enter, picked), hit)
                      /\ lastOp' = Op("down", "", DownPick(hasRay, enter, picked), "")

\* the LEFT_DOWN input action
LeftDown ==
    /\ Step
    /\ handler
    /\ \E hasRay \in BOOLEAN :
          IF object = "null" THEN Return /\ lastOp' = Op("down", "", NullId, "")
          ELSE \E enter \in RayPatterns(hasRay) :
                  \E picked \in ScenePicks(hasRay, enter) :
                      \E hit \in StartHits(hasRay, DownPick(hasRay, enter, picked)) :
                          /\ HandleDown(DownPick(hasRay, enter, picked), hit)
                          /\ lastOp' = Op("down", "", DownPick(hasRay, enter, picked), "")

\* the LEFT_UP input action
LeftUp ==
    /\ Step
    /\ handler
    /\ IF object = "null" THEN Return ELSE HandleUp
    /\ lastOp' = Op("up", "", NullId, "")

Next ==
    \/ CallBindObject
    \/ CallDetach
    \/ CallSetMode
    \/ CallGetTransformState
    \/ CallDestroy
    \/ PreUpdate
    \/ MouseMove
    \/ LeftDown
    \/ LeftUp

Spec == Init /\ [][Next]_vars

\* ---- A caller that does not respect the declared parameter type ----

\* a truthy value that is neither a Model nor a Cesium3DTileset: a Cartesian3
UntypedObjects == {"pointC"}
\* the coordinates of that point: the host passes the position of its model
PointOf(o) == BoundingSphereCenter("modelA", InitialMatrix("modelA"))

\* bindObject(o) for such a value: parseCenter takes the value itself as the
\* centre, updateOutlineSelection selects nothing, and getTransformState throws
\* on the missing modelMatrix before the callback is entered
BindUntyped(o) ==
    IF object = o
    THEN /\ fired' = <<>>
         /\ UNCHANGED <<object, center, mode, activeScale, registryVars, isDragging, dragAxisName,
                        dragPlane, sessionVars, highlightedId, selected, cameraVars,
                        subscriptionVars, modelMatrix>>
    ELSE /\ ResetState
         /\ object' = o
         /\ center' = <<PointOf(o)>>
         /\ CreateGizmo(mode)
         /\ selected' = IF edgeDetection THEN <<>> ELSE selected
         /\ fired' = <<>>
         /\ UNCHANGED <<mode, sessionVars, subscriptionVars, modelMatrix>>

CallBindUntyped ==
    Step /\ Alive /\ \E o \in UntypedObjects :
        BindUntyped(o) /\ lastOp' = Op("bindObject", o, NullId, IF object = o THEN "" ELSE "throw")

\* the drag of such a value is not followed: pointer-down is taken on the
\* objects of the declared type only
TypedLeftDown == object \notin UntypedObjects /\ LeftDown

NextUntyped ==
    \/ CallBindUntyped
    \/ CallBindObject
    \/ CallDetach
    \/ CallSetMode
    \/ CallGetTransformState
    \/ CallDestroy
    \/ PreUpdate
    \/ MouseMove
    \/ TypedLeftDown
    \/ LeftUp

SpecUntyped == Init /\ [][NextUntyped]_vars

\* ---- A host application that disables the camera controls itself ----

\* the host sets enableRotate and enableTranslate of the
\* screenSpaceCameraController to false, outside the engine
HostDisablesCamera ==
    /\ Step
    /\ enableRotate' = FALSE
    /\ enableTranslate' = FALSE
    /\ fired' = <<>>
    /\ UNCHANGED <<object, center, mode, activeScale, registryVars, isDragging, dragAxisName,
                   dragPlane, sessionVars, highlightedId, selected, subscriptionVars, modelMatrix>>
    /\ lastOp' = Op("host", "", NullId, "")

NextHost ==
    \/ HostDisablesCamera
    \/ CallBindObject
    \/ CallDetach
    \/ CallSetMode
    \/ CallGetTransformState
    \/ CallDestroy
    \/ PreUpdate
    \/ MouseMove
    \/ LeftDown
    \/ LeftUp

SpecHost == Init /\ [][NextHost]_vars

\* The gizmo constructed with an object and no mode (the default, 'translate'), on
\* a scene that supports silhouettes: the constructor ends with bindObject(object),
\* which reads the centre, builds the handles and reports the state to onUpdate
InitBound ==
    /\ object \in HostObjects
    /\ modelMatrix = [o \in HostObjects |-> InitialMatrix(o)]
    /\ center = <<BoundingSphereCenter(object, modelMatrix[object])>>
    /\ mode = "translate"
    /\ activeScale = <<Den, Den, Den>>
    /\ axisPrimitives = GizmoPrimitives(mode)
    /\ colliders = GizmoColliders(mode)
    /\ handler = TRUE
    /\ preUpdate = TRUE
    /\ isDragging = FALSE
    /\ dragAxisName = ""
    /\ dragPlane = <<>>
    /\ dragStartPoint = ZeroVec
    /\ dragStartCenter = ZeroVec
    /\ dragVectorStart = ZeroVec
    /\ initialModelMatrix = Mat(ZeroVec, ZeroVec, ZeroVec, ZeroVec)
    /\ highlightedId = NullId
    /\ edgeDetection = TRUE
    /\ selected = <<object>>
    /\ enableRotate = TRUE
    /\ enableTranslate = TRUE
    /\ placed = <<>>
    /\ events = 0
    /\ lastOp = [name |-> "new", arg |-> object, wasDragging |-> FALSE, wasAlive |-> TRUE,
                 picked |-> NullId, tick |-> "", hit |-> <<>>]
    /\ fired = <<GetTransformState(object, center, modelMatrix)>>
SpecBound == InitBound /\ [][Next]_vars

-----------------------------------------------------------------------------
\* Cancellation of a drag session

\* C1: detach(), or bindObject(null), called while a drag session is active leaves
\* the engine not dragging, both camera controls enabled, the handle and collider
\* registry empty and no object bound.
DetachCancelsDrag ==
    (lastOp.wasDragging
        /\ (lastOp.name = "detach" \/ (lastOp.name = "bindObject" /\ lastOp.arg \in Falsy)))
    => /\ ~isDragging
       /\ enableRotate /\ enableTranslate
       /\ colliders = <<>> /\ axisPrimitives = {}
       /\ object = "null"

\* a drag was cancelled by detach() after a tick had moved the object
DetachedMidDrag ==
    /\ lastOp.name = "detach" /\ lastOp.wasDragging
    /\ object = "null"
    /\ \E o \in HostObjects : modelMatrix[o] # InitialMatrix(o)

\* C2: setting mode to a different value while a drag session is active leaves
\* isDragging false and both camera controls enabled.
ModeChangeCancelsDrag ==
    [][(isDragging /\ mode' # mode) => (~isDragging' /\ enableRotate' /\ enableTranslate')]_vars

\* C3: destroy() called while a drag session is active ends the session and
\* re-enables both camera controls: no state after destroy() has the camera
\* controls disabled by the engine.
DestroyCancelsDrag ==
    ~handler => (~isDragging /\ enableRotate /\ enableTranslate)

\* C4: bindObject(o) with o different from the bound object resets the engine, also
\* mid-drag: o is bound, no session is active, the active scale is (1,1,1), both
\* camera controls are enabled and the registry is the one of the current mode.
RebindResets ==
    [][(lastOp'.name = "bindObject" /\ lastOp'.arg \notin Falsy \cup {object})
        => /\ object' = lastOp'.arg
           /\ ~isDragging' /\ dragAxisName' = "" /\ dragPlane' = <<>>
           /\ activeScale' = <<Den, Den, Den>>
           /\ highlightedId' = NullId
           /\ enableRotate' /\ enableTranslate'
           /\ colliders' = GizmoColliders(mode') /\ axisPrimitives' = GizmoPrimitives(mode')]_vars

\* another object was bound in the middle of a scale drag that had scaled the first
ReboundMidDrag ==
    /\ lastOp.name = "bindObject" /\ lastOp.wasDragging
    /\ object = lastOp.arg /\ ~isDragging
    /\ mode = "scale"
    /\ \E o \in HostObjects \ {object} : modelMatrix[o] # InitialMatrix(o)

\* C5: while a session is active a further pointer-down starts no new session: the
\* active handle, the drag plane, the start point, the start centre and the
\* initial matrix of the session stay as they are.
SingleSession ==
    [][(isDragging /\ lastOp'.name = "down")
        => UNCHANGED <<dragAxisName, dragPlane, dragStartPoint, dragStartCenter,
                       initialModelMatrix>>]_vars

-----------------------------------------------------------------------------
\* Pointer transitions

\* C6: a pointer-down outside a session starts one exactly when an object is bound,
\* a handle of the registry is resolved under the pointer, and the handle is not
\* CENTER or the mode is scale; on CENTER in translate or rotate mode isDragging
\* stays false and the camera controls stay as they were.
DownStartsDrag ==
    [][(lastOp'.name = "down" /\ ~isDragging)
        => /\ isDragging' <=>
                 /\ object # "null"
                 /\ lastOp'.picked \in RenderedIds
                 /\ (lastOp'.picked.axis # "CENTER" \/ mode = "scale")
           /\ (lastOp'.picked.axis = "CENTER" /\ mode # "scale")
                 => (~isDragging' /\ UNCHANGED cameraVars)]_vars

\* C7: a pointer-up during a session ends it, enables both camera controls, resets
\* the active scale to (1,1,1) and empties the outline selection; a pointer-up
\* outside a session changes no engine state.
UpEndsDrag ==
    [][lastOp'.name = "up"
        => IF isDragging
           THEN /\ ~isDragging'
                /\ enableRotate' /\ enableTranslate'
                /\ activeScale' = <<Den, Den, Den>>
                /\ selected' = <<>>
           ELSE UNCHANGED engineVars]_vars

\* a pointer-up ended a scale drag that had scaled the outlined object
ReleasedAfterScale ==
    /\ lastOp.name = "up" /\ lastOp.wasDragging
    /\ ~isDragging /\ enableRotate /\ enableTranslate
    /\ mode = "scale" /\ edgeDetection
    /\ object # "null" /\ modelMatrix[object] # InitialMatrix(object)

\* C8: with no object bound a pointer move, down or up changes neither isDragging,
\* the session fields, the highlight, the camera controls nor a model matrix, and
\* fires no update callback.
UnboundPointerNoOp ==
    [][(object = "null" /\ lastOp'.name \in {"move", "down", "up"})
        => /\ UNCHANGED <<isDragging, dragAxisName, dragPlane, sessionVars, activeScale,
                          highlightedId, cameraVars, modelMatrix>>
           /\ fired' = <<>>]_vars

\* a pointer-down arrived with no object bound while the registry held handles
UnboundPointerDown ==
    /\ object = "null" /\ lastOp.name = "down"
    /\ colliders # <<>>
    /\ ~isDragging

\* C9: a model matrix is written only by a pointer-move handled during a session:
\* update(), hover moves, pointer-down, pointer-up, bindObject, detach, mode
\* changes and getTransformState leave every model matrix as it was.
MatrixWrittenByDragOnly ==
    [][modelMatrix' # modelMatrix
        => (isDragging /\ lastOp'.name = "move" /\ object # "null"
            /\ \A o \in HostObjects \ {object} : modelMatrix'[o] = modelMatrix[o])]_vars

\* a drag tick has written the bound object's matrix
DragWroteMatrix ==
    /\ lastOp.name = "move" /\ lastOp.tick = "ok" /\ isDragging
    /\ object # "null" /\ modelMatrix[object] # InitialMatrix(object)

\* C10: the update callback runs exactly once after every drag tick whose ray meets
\* the drag plane and after every bindObject that binds an object, each time with
\* the TransformState decoded from the object's current model matrix.
CallbackAfterTickAndBind ==
    [][(\/ lastOp'.name = "move" /\ lastOp'.tick \in {"ok", "throw"}
        \/ lastOp'.name = "bindObject" /\ lastOp'.arg \notin Falsy \cup {object})
        => /\ fired' = <<GetTransformState(object', center', modelMatrix')>>
           /\ fired'[1] # <<>>]_vars

-----------------------------------------------------------------------------
\* Skipped ticks, getTransformState, detach and destroy

\* C11: a pointer-move of a session that gives no pick ray, or whose ray does not
\* meet the stored drag plane, is skipped: every model matrix, the centre and the
\* session fields stay as they were and the update callback does not run.
MissedTickSkipped ==
    [][(lastOp'.name = "move" /\ isDragging /\ object # "null" /\ lastOp'.tick = "skip")
        => /\ UNCHANGED <<modelMatrix, center, dragAxisName, dragPlane, sessionVars, activeScale>>
           /\ fired' = <<>>]_vars

\* a tick was skipped after an earlier tick of the session had moved the object
SkippedAfterMove ==
    /\ lastOp.name = "move" /\ lastOp.tick = "skip" /\ lastOp.wasDragging
    /\ isDragging /\ dragPlane # <<>>
    /\ object # "null" /\ modelMatrix[object] # InitialMatrix(object)
    /\ fired = <<>>

\* C12: getTransformState() returns null exactly in the states with no object
\* bound and a TransformState in every state with an object bound, and a call of
\* it changes no state.
TransformStateIffBound ==
    [][/\ (GetTransformState(object', center', modelMatrix') = <<>>) <=> (object' = "null")
       /\ lastOp'.name = "getTransformState"
             => (UNCHANGED engineVars /\ fired' = <<>>
                 /\ GetTransformState(object', center', modelMatrix')
                       = GetTransformState(object, center, modelMatrix))]_vars

\* getTransformState() was called on a bound object that a drag had moved
ReadAfterDrag ==
    /\ lastOp.name = "getTransformState"
    /\ object # "null" /\ modelMatrix[object] # InitialMatrix(object)
    /\ GetTransformState(object, center, modelMatrix) # <<>>
    /\ GetTransformState(object, center, modelMatrix)[1].modelMatrix = modelMatrix[object]

\* C13: detach(), bindObject(null) and bindObject(undefined) are one operation:
\* from any state each of them leads to the state with no object, no centre, an
\* empty registry, no session and both camera controls enabled, all other fields
\* as they were, and none of them runs the update callback.
DetachEqualsBindNull ==
    [][(lastOp'.name = "detach" \/ (lastOp'.name = "bindObject" /\ lastOp'.arg \in Falsy))
        => /\ object' = "null" /\ center' = <<>>
           /\ colliders' = <<>> /\ axisPrimitives' = {} /\ placed' = <<>>
           /\ ~isDragging' /\ dragAxisName' = "" /\ dragPlane' = <<>>
           /\ activeScale' = <<Den, Den, Den>>
           /\ highlightedId' = NullId
           /\ enableRotate' /\ enableTranslate'
           /\ selected' = <<>>
           /\ UNCHANGED <<mode, sessionVars, subscriptionVars, modelMatrix>>
           /\ fired' = <<>>]_vars

\* bindObject(undefined) ended a session that had moved the object
UnboundByUndefined ==
    /\ lastOp.name = "bindObject" /\ lastOp.arg = "undefined" /\ lastOp.wasDragging
    /\ object = "null" /\ colliders = <<>>
    /\ \E o \in HostObjects : modelMatrix[o] # InitialMatrix(o)

\* C14: destroy() releases the input handler and the preUpdate listener and is
\* idempotent: once destroyed, no pointer event and no frame tick changes an
\* engine field or a model matrix, and a second destroy() leaves the state as the
\* first one left it.
DestroyReleasesAndIdempotent ==
    [][/\ lastOp'.name = "destroy" => (~handler' /\ ~preUpdate')
       /\ ~handler => (UNCHANGED engineVars /\ ~preUpdate' /\ fired' = <<>>
                       /\ lastOp'.name \notin {"move", "down", "up", "update"})]_vars

\* destroy() was called a second time, on a gizmo destroyed in the middle of a drag
DestroyedTwice ==
    /\ lastOp.name = "destroy" /\ ~lastOp.wasAlive
    /\ ~handler /\ ~preUpdate
    /\ object # "null" /\ isDragging

\* ---- The collider registry and the ray cast ----

\* the collider set the documentation gives for a mode: name, kind and angular
\* range in degrees
BoxOf(name) == <<name, "BOX", 0, 0>>
SectorOf(name) == <<name, "SECTOR", 0, 90>>
DocumentedColliders(m) ==
    {BoxOf("CENTER")} \cup
    (IF m = "translate"
     THEN {BoxOf(n) : n \in {"TRANS_X", "TRANS_Y", "TRANS_Z", "PLANE_XY", "PLANE_YZ", "PLANE_ZX"}}
     ELSE IF m = "rotate"
     THEN {SectorOf(n) : n \in {"ROT_X", "ROT_Y", "ROT_Z"}}
     ELSE {BoxOf(n) : n \in {"SCALE_X", "SCALE_Y", "SCALE_Z"}})
RegisteredColliders(cs) ==
    {<<cs[i].id.name, cs[i].type, cs[i].startAngle, cs[i].endAngle>> : i \in 1..Len(cs)}

\* C15: the rebuild of the handles is total and idempotent: a mode change and
\* the binding of another object leave a registry, and a registry that is not
\* empty holds exactly the colliders of the current mode, each once, whatever
\* the registry held before: the six boxes and the centre in translate, the three
\* 0-90 degree sectors and the centre in rotate, the three boxes and the centre
\* in scale.
RebuildExact ==
    [][/\ (\/ (lastOp'.name = "mode" /\ mode' # mode)
           \/ (lastOp'.name = "bindObject" /\ lastOp'.arg \notin Falsy /\ lastOp'.arg # object))
          => colliders' # <<>>
       /\ colliders' # <<>>
          => /\ RegisteredColliders(colliders') = DocumentedColliders(mode')
             /\ Len(colliders') = Cardinality(DocumentedColliders(mode'))]_vars

\* the mode was set to rotate while a translate handle was being dragged, and
\* the registry was rebuilt
RebuiltForRotate ==
    /\ lastOp.name = "mode" /\ lastOp.arg = "rotate" /\ mode = "rotate"
    /\ lastOp.wasDragging /\ dragAxisName \in {"TRANS_X", "TRANS_Y", "TRANS_Z"}
    /\ object # "null"
    /\ RegisteredColliders(colliders) = DocumentedColliders("rotate")

\* C16: a truthy value of an unsupported type passed to bindObject is rejected:
\* after the call no object is bound, there is no centre, the registry is empty
\* and getTransformState() gives null.
UnsupportedRejected ==
    [][(lastOp'.name = "bindObject" /\ lastOp'.arg \in UntypedObjects)
        => /\ object' = "null" /\ center' = <<>>
           /\ colliders' = <<>> /\ axisPrimitives' = {}]_vars

\* C17: when a ray hits the centre collider and at least one axis or plane
\* collider, the ray cast gives the axis or plane handle with the smallest entry
\* distance; it gives the centre handle only when no other collider is hit.
CenterYieldsToHandles ==
    \A enter \in RayPatterns(TRUE) :
        LET others == {i \in Tested(enter) : colliders[i].id.axis # "CENTER"}
        IN others # {}
              => \E i \in others :
                    /\ RayCastGizmo(TRUE, enter) = colliders[i].id
                    /\ \A j \in others : enter[i].start <= enter[j].start

\* C18: the primitive key of every registered collider resolves in the primitive
\* registry, so the ray cast tests every collider; in particular the three
\* sector colliders of the rotate mode are tested.
ColliderKeysResolve ==
    \A i \in 1..Len(colliders) : colliders[i].primitiveKey \in axisPrimitives

\* C19: in rotate mode the ray cast resolves the handle of a sector for a ray
\* whose entry point lies inside the 0-90 degree wedge within the outer radius,
\* such as the local point (0.7, 0.7, 0) of the Z sector of radius 1, and does
\* not resolve it for an entry point at 135 degrees.
SectorWedgeResolves ==
    \A enter \in RayPatterns(TRUE) : \A i \in 1..Len(colliders) :
        (colliders[i].type = "SECTOR" /\ enter[Len(colliders)].start = 0)
        => /\ enter[i].point = FromUV(colliders[i], 700, 700)
                 => RayCastGizmo(TRUE, enter) = colliders[i].id
           /\ enter[i].point = FromUV(colliders[i], -700, 700)
                 => RayCastGizmo(TRUE, enter) # colliders[i].id

\* ---- Translation ----

\* the unit axis of a single-axis translate handle in the local frame
HandleAxis(name) ==
    IF name = "TRANS_X" THEN East ELSE IF name = "TRANS_Y" THEN North ELSE Up

Unrotated(m) ==
    m.c0 = VScale(East, Den) /\ m.c1 = VScale(North, Den) /\ m.c2 = VScale(Up, Den)

\* C21: a drag of the Z rotate handle of an unrotated object from the start
\* direction (1,0,0) of the local frame (east) to the direction (0,1,0) (north)
\* reports a TransformState with heading 90, pitch 0 and roll 0.
QuarterTurnHeading90 ==
    [][(/\ lastOp'.name = "move" /\ lastOp'.tick = "ok"
        /\ isDragging /\ object # "null" /\ mode = "rotate" /\ dragAxisName = "ROT_Z"
        /\ center # <<>> /\ dragPlane # <<>>
        /\ dragVectorStart = East /\ Unrotated(initialModelMatrix)
        /\ <<VAdd(center[1], VScale(North, Den))>> \in MoveHits(TRUE)
        /\ modelMatrix'[object] = DragTick(<<VAdd(center[1], VScale(North, Den))>>).matrix
        /\ modelMatrix'[object] # initialModelMatrix)
        => /\ fired' # <<>>
           /\ fired'[1] # <<>>
           /\ fired'[1][1].rotation = <<90 * 100, 0, 0>>]_vars

\* the column of a model matrix that carries the object's own axis A
OwnAxis(m, axis) == IF axis = "X" THEN m.c0 ELSE IF axis = "Y" THEN m.c1 ELSE m.c2
\* the factor a tick of a single-axis scale handle recorded for axis A
RecordedFactor(s, axis) == IF axis = "X" THEN s[1] ELSE IF axis = "Y" THEN s[2] ELSE s[3]

\* C22: a tick on the scale handle of axis A that produces the factor f leaves
\* the object's scale along its own axis A at f times the scale it had at
\* pointer-down and its scale along its two other axes as at pointer-down,
\* whatever the orientation of the object in the local frame.
ScaleAlongOwnAxis ==
    [][(/\ lastOp'.name = "move" /\ lastOp'.tick = "ok"
        /\ isDragging /\ object # "null" /\ mode = "scale"
        /\ dragAxisName \in {"SCALE_X", "SCALE_Y", "SCALE_Z"})
        => \A axis \in {"X", "Y", "Z"} :
              Magnitude(OwnAxis(modelMatrix'[object], axis)) * Den
                 = Magnitude(OwnAxis(initialModelMatrix, axis))
                      * (IF axis = AxisOfName(dragAxisName)
                         THEN RecordedFactor(activeScale', axis) ELSE Den)]_vars

\* the largest drag distance, in units of the local frame, of the deltas below
MaxDrag == 4
\* drag distances along the handle, in half units, inward and outward
DragDistances == {k * (Den \div 2) : k \in (-2 * MaxDrag)..(2 * MaxDrag)}
\* the factor a drag distance asks for: 1 + dragDist * sensitivity (* 2 on CENTER)
RequestedFactor(dragDist, gain) == Den + (dragDist * gain * Den) \div CurrentLen

\* C23: the scale factor of a tick is never below 0.01, on the centre handle
\* and on the single-axis handles: for every drag distance the factor is the
\* requested one, or exactly 0.01 when the requested one is below 0.01; the
\* factor a tick records in the active scale obeys this, and every axis of the
\* matrix the tick writes keeps at least 0.01 of its length at pointer-down.
ScaleFloor ==
    [][/\ \A d \in DragDistances, gain \in {1, 2} :
              /\ ScaleFactor(d, gain) >= MinScale
              /\ RequestedFactor(d, gain) < MinScale => ScaleFactor(d, gain) = MinScale
              /\ RequestedFactor(d, gain) >= MinScale => ScaleFactor(d, gain) = RequestedFactor(d, gain)
       /\ (/\ lastOp'.name = "move" /\ lastOp'.tick = "ok"
           /\ isDragging /\ object # "null" /\ mode = "scale"
           /\ dragAxisName \in {"CENTER", "SCALE_X", "SCALE_Y", "SCALE_Z"})
          => LET uniform == dragAxisName = "CENTER"
                 f == IF uniform THEN activeScale'[1]
                      ELSE RecordedFactor(activeScale', AxisOfName(dragAxisName))
                 dir == IF uniform THEN CameraUp ELSE EnuAxis(AxisOfName(dragAxisName))
             IN /\ f >= MinScale
                /\ uniform => activeScale' = <<f, f, f>>
                /\ LET asked == RequestedFactor(VDot(VSub(lastOp'.hit[1], dragStartPoint), dir),
                                                IF uniform THEN 2 ELSE 1)
                   IN f = IF asked < MinScale THEN MinScale ELSE asked
                /\ \A axis \in {"X", "Y", "Z"} :
                      Magnitude(OwnAxis(modelMatrix'[object], axis)) * Den
                         >= Magnitude(OwnAxis(initialModelMatrix, axis)) * MinScale]_vars

\* a tick on the centre handle asked for the factor 0 and the object was left
\* at 0.01 of its size
ScaledToFloor ==
    /\ lastOp.name = "move" /\ lastOp.tick = "ok" /\ lastOp.wasDragging
    /\ mode = "scale" /\ dragAxisName = "CENTER" /\ object # "null"
    /\ activeScale = <<MinScale, MinScale, MinScale>>
    /\ \A axis \in {"X", "Y", "Z"} :
          Magnitude(OwnAxis(modelMatrix[object], axis)) * Den
             = Magnitude(OwnAxis(initialModelMatrix, axis)) * MinScale

\* ---- Quadrant snapping ----

\* the largest component of the camera directions below
MaxCam == 2
\* camera directions in the plane of a sector: (v, u) with angle atan2(v, u)
CameraDirections == {d \in ((-MaxCam)..MaxCam) \X ((-MaxCam)..MaxCam) : d # <<0, 0>>}
\* the angle of such a direction, in degrees: exact on the axes, inside the open
\* quadrant otherwise
DirectionAngle(d) == Atan2Deg(d[1], d[2])
\* floor(angle / 90 degrees) * 90 degrees
FloorTo90(a) == (a \div 90) * 90

\* C24: the snapped orientation of a rotation sector is floor(angle / 90) * 90
\* of the camera direction's angle: 0 for angles in [0, 90), 90 at exactly 90,
\* always a multiple of 90 with snapped <= angle < snapped + 90; and a frame
\* update in rotate mode places the three sectors at the snap of the camera
\* direction seen from the centre, the same at every re-evaluation.
SnapIsFloor ==
    /\ \A d \in CameraDirections :
          LET a == DirectionAngle(d)
              snapped == 90 * SnapQuadrant(d[1], d[2])
          IN /\ snapped = FloorTo90(a)
             /\ snapped % 90 = 0
             /\ snapped <= a /\ a < snapped + 90
             /\ (0 <= a /\ a < 90) => snapped = 0
             /\ a = 90 => snapped = 90
    /\ (placed # <<>> /\ mode = "rotate")
          => LET l == LocalCameraDir(placed[1].origin)
             IN placed[1].snap = <<FloorTo90(Atan2Deg(l[3], l[2])),
                                   FloorTo90(Atan2Deg(l[1], l[3])),
                                   FloorTo90(Atan2Deg(l[2], l[1]))>>

\* a frame update placed the sectors of a bound object, the Z sector turned to
\* the quadrant of the camera
SectorsSnapped ==
    /\ lastOp.name = "update" /\ mode = "rotate" /\ object # "null"
    /\ placed # <<>> /\ placed[1].snap[3] # 0
    /\ placed[1].snap = SnapAngles(placed[1].origin)

\* ---- The decoded TransformState ----

\* the largest offset, in thousandths of a unit or of a degree, of the samples below
MaxMilli == 12
\* translations along one axis of the world, in thousandths of a unit
SmallTranslations ==
    {VScale(a, k) : a \in {<<1, 0, 0>>, <<0, 1, 0>>, <<0, 0, 1>>}, k \in (-MaxMilli)..MaxMilli}

\* C25: the reported position is the translation of the model matrix rounded to
\* 3 decimal digits: the matrix of an object composed with a translation
\* (dx, dy, dz) decodes to a position within 0.001 of the object's position plus
\* (dx, dy, dz).
PositionRoundTrip ==
    \A o \in HostObjects, d \in SmallTranslations :
        LET m == Multiply(FromTranslation(d), modelMatrix[o])
        IN \A k \in 1..3 :
              Abs(DecodeMatrix(m).position[k] - (modelMatrix[o].t[k] + d[k])) <= Den \div 1000

\* the largest number of quarter turns of the angles below
MaxTurns == 4
\* angles, in thousandths of a degree, within 0.012 degrees of a multiple of 90
\* degrees, negative and beyond a full turn included
AngleSamples ==
    {q * 90 * Den + e : q \in (-MaxTurns)..MaxTurns, e \in (-MaxMilli)..MaxMilli}

\* C26: every heading, pitch and roll of a TransformState lies in [0, 360): the
\* conversion gives a value a with 0 <= a < 360 for every angle, negative angles
\* and angles that round up to 360.00 included, and so does every state handed
\* to the update callback.
AnglesWrapped ==
    /\ \A md \in AngleSamples : 0 <= WrapDegrees(md) /\ WrapDegrees(md) < 360 * 100
    /\ \A i \in 1..Len(fired) :
          fired[i] # <<>>
             => \A k \in 1..3 :
                   0 <= fired[i][1].rotation[k] /\ fired[i][1].rotation[k] < 360 * 100

\* the callback received a heading of 270: the wrapped form of -90 degrees
NegativeHeadingWrapped ==
    /\ lastOp.name = "move" /\ lastOp.tick = "ok"
    /\ fired # <<>> /\ fired[1] # <<>>
    /\ Heading(modelMatrix[object]) = -90
    /\ fired[1][1].rotation[1] = 270 * 100

\* ---- The snapshot of a drag session ----

\* a delta applied about the point c to the matrix m0
DeltaAbout(delta, c, m0) ==
    Multiply(Multiply(FromTranslation(c), Multiply(delta, FromTranslation(VNeg(c)))), m0)
\* the rotations a tick can compose: quarter and half turns about a local axis
TickRotations == {RotationMatrix(a, q) : a \in {East, North, Up}, q \in {-2, -1, 1, 2}}
\* the scale a tick composed, read from the active scale it recorded
TickScale(name, s) ==
    IF name = "CENTER" THEN FromScale(s)
    ELSE OrientedScale(<<IF AxisOfName(name) = "X" THEN s[1] ELSE Den,
                         IF AxisOfName(name) = "Y" THEN s[2] ELSE Den,
                         IF AxisOfName(name) = "Z" THEN s[3] ELSE Den>>)

\* C27: the initial object matrix is the object's model matrix at the
\* pointer-down that opens the session, no move tick modifies it, and the
\* matrix a tick writes is a delta applied to that snapshot (a translation by
\* the centre's displacement, a rotation or the recorded scale about the
\* centre), never to the matrix an earlier tick wrote; the other objects keep
\* their matrices.
DragUsesSnapshot ==
    [][/\ (/\ lastOp'.name = "down" /\ object # "null" /\ center # <<>>
           /\ lastOp'.picked # NullId
           /\ (lastOp'.picked.axis # "CENTER" \/ mode = "scale"))
          => (initialModelMatrix' = modelMatrix[object] /\ modelMatrix' = modelMatrix)
       /\ (lastOp'.name = "move" /\ isDragging /\ object # "null")
          => /\ initialModelMatrix' = initialModelMatrix
             /\ \A o \in HostObjects \ {object} : modelMatrix'[o] = modelMatrix[o]
             /\ lastOp'.tick # "ok" => modelMatrix' = modelMatrix
             /\ (lastOp'.tick = "ok" /\ mode = "translate")
                   => modelMatrix'[object]
                         = Multiply(FromTranslation(VSub(center'[1], dragStartCenter)),
                                    initialModelMatrix)
             /\ (lastOp'.tick = "ok" /\ mode = "rotate")
                   => \/ modelMatrix'[object] = modelMatrix[object]
                      \/ \E delta \in TickRotations :
                            modelMatrix'[object] = DeltaAbout(delta, center[1], initialModelMatrix)
             /\ (lastOp'.tick = "ok" /\ mode = "scale")
                   => modelMatrix'[object]
                         = DeltaAbout(TickScale(dragAxisName, activeScale'), center[1],
                                      initialModelMatrix)]_vars

\* a tick of a scale session wrote the snapshot taken at pointer-down, scaled
\* once by the factor the tick recorded
TickWroteFromSnapshot ==
    /\ lastOp.name = "move" /\ lastOp.tick = "ok" /\ lastOp.wasDragging
    /\ mode = "scale" /\ dragAxisName = "SCALE_X" /\ object # "null"
    /\ activeScale[1] \notin {Den, MinScale}
    /\ modelMatrix[object] = DeltaAbout(TickScale(dragAxisName, activeScale), center[1],
                                        initialModelMatrix)
    /\ initialModelMatrix = InitialMatrix(object)

\* the handles of a mode
HandlesOf(m) ==
    IF m = "translate" THEN {"TRANS_X", "TRANS_Y", "TRANS_Z", "PLANE_XY", "PLANE_YZ", "PLANE_ZX"}
    ELSE IF m = "rotate" THEN {"ROT_X", "ROT_Y", "ROT_Z"}
    ELSE {"SCALE_X", "SCALE_Y", "SCALE_Z", "CENTER"}

\* C28: in a session on a handle of the current mode, a move tick whose plane
\* point is the start point of the session leaves the object's model matrix
\* equal to the initial object matrix, in translate, rotate and scale mode and
\* whatever the earlier ticks of the session wrote.
ReturnToStart ==
    [][(/\ lastOp'.name = "move" /\ lastOp'.tick = "ok"
        /\ isDragging /\ object # "null" /\ dragAxisName \in HandlesOf(mode)
        /\ lastOp'.hit = <<dragStartPoint>>)
        => modelMatrix'[object] = initialModelMatrix]_vars

\* C29: a rotate tick whose angle is exactly zero, the direction from the
\* centre to the plane point being a direction (the point is not the centre
\* itself) and the start direction, composes no rotation:
\* it writes no model matrix and changes no field of the drag session.
ZeroAngleNoOp ==
    [][(/\ lastOp'.name = "move" /\ isDragging /\ object # "null" /\ mode = "rotate"
        /\ lastOp'.hit # <<>> /\ center # <<>>
        /\ Normalize(VSub(lastOp'.hit[1], center[1])) # ZeroVec
        /\ Normalize(VSub(lastOp'.hit[1], center[1])) = dragVectorStart)
        => /\ lastOp'.tick = "ok"
           /\ UNCHANGED <<modelMatrix, center, activeScale, isDragging, dragAxisName, dragPlane,
                          sessionVars>>]_vars

\* a tick of a rotate session came back to the start direction after an
\* earlier tick had turned the object, and left the turned matrix in place
ZeroAngleAfterTurn ==
    /\ lastOp.name = "move" /\ lastOp.tick = "ok" /\ lastOp.wasDragging
    /\ mode = "rotate" /\ dragAxisName \in {"ROT_X", "ROT_Y", "ROT_Z"}
    /\ object # "null" /\ center # <<>> /\ lastOp.hit # <<>>
    /\ Normalize(VSub(lastOp.hit[1], center[1])) = dragVectorStart
    /\ modelMatrix[object] # initialModelMatrix

\* ---- The registry of an unbound engine ----

\* C30: whenever no object is bound the handle and collider registry is empty,
\* after any sequence of construction, bindObject, detach, mode changes and
\* pointer events.
UnboundRegistryEmpty ==
    object = "null" => (colliders = <<>> /\ axisPrimitives = {})

\* ---- The start of a drag session ----

\* the normal the documentation gives the drag plane of a handle
DocumentedNormal(name) ==
    IF name = "PLANE_XY" THEN Up
    ELSE IF name = "PLANE_YZ" THEN East
    ELSE IF name = "PLANE_ZX" THEN North
    ELSE IF name = "ROT_X" THEN East
    ELSE IF name = "ROT_Y" THEN North
    ELSE IF name = "ROT_Z" THEN Up
    ELSE CameraDirection

\* C31: a pointer-down that opens a session on a handle of the registry leaves
\* a drag plane through the current centre whose normal is the plane's own
\* normal axis for the planar translate handles, the camera direction for the
\* single-axis translate handles, the scale handles and CENTER, and the rotation
\* axis for the rotate handles.
DragPlaneByHandle ==
    [][(/\ lastOp'.name = "down" /\ object # "null" /\ center # <<>>
        /\ lastOp'.picked \in RenderedIds
        /\ (lastOp'.picked.axis # "CENTER" \/ mode = "scale"))
        => /\ isDragging'
           /\ dragPlane' = <<[normal |-> DocumentedNormal(lastOp'.picked.name),
                              point |-> center[1]]>>]_vars

\* a session was opened on the XY plane handle of an object that an earlier
\* tick had moved away from its place: the plane passes through the moved centre
PlaneThroughMovedCenter ==
    /\ lastOp.name = "down" /\ lastOp.picked.name = "PLANE_XY" /\ isDragging
    /\ object # "null" /\ center # <<>>
    /\ center[1] # BoundingSphereCenter(object, InitialMatrix(object))
    /\ dragPlane = <<[normal |-> Up, point |-> center[1]]>>

\* everything scene.pick can answer at a pointer position
HostPicks == {NullId, ForeignId} \cup RenderedIds

\* C32: the pick of the host is a fallback: at pointer-down and on hover, for
\* every registry that construction, bindObject, detach or a mode change
\* leaves, every ray and every answer of the host, the handle the ray cast
\* resolves is the one used, and the answer of the host is used only when the
\* ray cast resolves none.
HostPickIsFallback ==
    lastOp.name \in {"new", "bindObject", "detach", "mode"}
    => \A hasRay \in BOOLEAN : \A enter \in RayPatterns(hasRay) :
          LET cast == RayCastGizmo(hasRay, enter)
          IN \A picked \in HostPicks :
                IF cast # NullId
                THEN /\ DownPick(hasRay, enter, picked) = cast
                     /\ HoverPick(hasRay, enter, picked) = cast
                ELSE /\ DownPick(hasRay, enter, picked) = picked
                     /\ HoverPick(hasRay, enter, picked) \in {picked, NullId}

\* a pointer-down opened a session on the X translate handle, which the ray
\* cast resolves in the registry of that state
DownOnCastHandle ==
    /\ lastOp.name = "down" /\ lastOp.picked.name = "TRANS_X" /\ isDragging
    /\ dragAxisName = "TRANS_X" /\ object # "null"
    /\ \E enter \in RayPatterns(TRUE) : RayCastGizmo(TRUE, enter) = lastOp.picked

\* ---- The life of a drag session ----

\* C33: a drag session stays open until pointer-up or cancellation: a
\* pointer-move, reported or skipped, and a frame update leave an open session
\* open on the same handle with the same plane, and a session only ever ends in
\* a pointer-up, a detach or a bindObject.
SessionHeldOpen ==
    [][/\ (isDragging /\ lastOp'.name \in {"move", "update"})
          => (isDragging' /\ UNCHANGED <<dragAxisName, dragPlane, cameraVars>>)
       /\ (isDragging /\ ~isDragging')
          => lastOp'.name \in {"up", "detach", "bindObject"}]_vars

\* a frame update ran in a session that an earlier tick had already used to
\* move the object, and the session is still open
UpdatedMidSession ==
    /\ lastOp.name = "update" /\ lastOp.wasDragging /\ isDragging
    /\ placed # <<>> /\ dragPlane # <<>>
    /\ object # "null" /\ modelMatrix[object] # InitialMatrix(object)

\* C34: the camera is locked exactly during a drag: with a host that never
\* writes the flags itself, in every reachable state the rotate control and the
\* translate control of the camera are disabled if and only if isDragging.
CameraLockedIffDragging ==
    /\ enableRotate <=> ~isDragging
    /\ enableTranslate <=> ~isDragging

\* a pointer-up closed a session in which the object had been moved, and the
\* camera is free again
UnlockedAfterDrag ==
    /\ lastOp.name = "up" /\ lastOp.wasDragging /\ ~isDragging
    /\ object # "null" /\ modelMatrix[object] # InitialMatrix(object)
    /\ enableRotate /\ enableTranslate

\* C35: a move tick that measures a delta measures it from the start point and
\* the start direction of the pointer-down that opened its session: the start
\* point lies on the session's drag plane, which passes through the centre of
\* that pointer-down, and the start direction is the unit vector from that
\* centre to the start point; neither is the initial zero vector or a value of
\* an earlier session.
TickMeasuresFromOwnStart ==
    [][(/\ lastOp'.name = "move" /\ lastOp'.tick = "ok"
        /\ isDragging /\ object # "null" /\ dragPlane # <<>>)
        => /\ dragPlane[1].point = dragStartCenter
           /\ VDot(VSub(dragStartPoint, dragPlane[1].point), dragPlane[1].normal) = 0
           /\ dragVectorStart # ZeroVec
           /\ dragVectorStart = Normalize(VSub(dragStartPoint, dragStartCenter))]_vars

\* C36: a session is only started for a handle of the current registry: a
\* pointer-down whose id is not one of the registered handles, such as the id of
\* a foreign primitive with a type but no axis and no name, starts no session,
\* leaves the camera controls as they were and writes no session field.
OnlyHandlesStartDrag ==
    [][(lastOp'.name = "down" /\ lastOp'.picked \notin RenderedIds)
        => UNCHANGED <<isDragging, cameraVars, dragAxisName, dragPlane, sessionVars>>]_vars

\* ---- The camera flags of the host ----

\* C37: bindObject and detach called while no drag is active leave the rotate
\* and translate control flags of the host's camera exactly as they were, also
\* when the host application had disabled them itself.
BindKeepsCameraFlags ==
    [][(lastOp'.name \in {"bindObject", "detach"} /\ ~isDragging)
        => UNCHANGED cameraVars]_vars

\* C38: bindObject(o) for the object already bound is a no-op in every state,
\* in the middle of a drag too: the session, isDragging, the camera flags, the
\* centre, the registry, the highlight and every other field of the engine are
\* unchanged and the update callback does not run.
RebindSameIsNoOp ==
    [][(lastOp'.name = "bindObject" /\ object # "null" /\ lastOp'.arg = object)
        => (UNCHANGED engineVars /\ fired' = <<>>)]_vars

\* the bound object was bound again during a session that had moved it, and
\* the session is still open
ReboundSameMidDrag ==
    /\ lastOp.name = "bindObject" /\ lastOp.arg = object /\ object # "null"
    /\ lastOp.wasDragging /\ isDragging /\ ~enableRotate
    /\ colliders # <<>> /\ dragPlane # <<>>
    /\ modelMatrix[object] # InitialMatrix(object)

\* ---- The centre of the gizmo ----

\* C39: the centre of the gizmo stays attached to the object: in every state
\* with an object bound the centre is the centre of the object under its
\* current model matrix, that is, the centre read at bind time displaced by the
\* translation the engine has applied to the matrix since; and rotate and scale
\* ticks leave the centre where it is.
CenterAttached ==
    [][/\ (object' # "null" /\ center' # <<>>)
          => center'[1] = BoundingSphereCenter(object', modelMatrix'[object'])
       /\ (lastOp'.name = "move" /\ isDragging /\ object # "null"
              /\ mode \in {"rotate", "scale"})
          => center' = center]_vars

====
